---- MODULE Spec2Model ----
(***************************************************************************)
(* Model of the model-routing and fallback engine of the agent backend:    *)
(* LLMFactory (agent/llm_factory.py), OpenRouterConfig                     *)
(* (agent/openrouter_config.py) and Configuration (agent/configuration.py).*)
(*                                                                         *)
(* Strings the code inspects character by character (error messages, API   *)
(* keys) are sequences of one-character strings; strings it only passes    *)
(* around (model names, roles) are TLA+ strings.                           *)
(***************************************************************************)
EXTENDS Integers, Sequences, FiniteSets, TLC

VARIABLES
    config,             \* LLMFactory.config: the Configuration given to __init__
    openrouter_api_key, \* LLMFactory.openrouter_config.api_key, read once in __init__
    skip,               \* presence of the attribute _skip_openrouter_due_to_credits
    env,                \* os.environ["OPENROUTER_API_KEY"] as of now
    last,               \* the last operation and what it did (observer)
    by_credits,         \* the flag was set after a free-tier credit-limit failure (observer)
    hist,               \* counters over the calls since the last reset (observer)
    os_environ,         \* os.environ: the variables Configuration looks up
    made,               \* the last construction of a Configuration and its result (observer)
    th,                 \* per thread: where it is in create_llm or in the reset, and its locals
    obs,                \* what the concurrent calls have done so far (observer)
    free_models,        \* the dict OpenRouterConfig.FREE_MODELS as of now
    other               \* a second LLMFactory object, once constructed: its attributes

vars == <<config, openrouter_api_key, skip, env, last, by_credits, hist, os_environ, made, th, obs, free_models, other>>

----------------------------------------------------------------------------
(* Bounds of the model *)

\* create_llm calls explored between two resets
MaxCalls == 3

\* threads that call one factory concurrently
NumThreads == 2

\* calls the threads begin, all together
MaxStarted == 3

----------------------------------------------------------------------------
(* Character-level strings *)

UpperToLower == [A |-> "a", B |-> "b", C |-> "c", D |-> "d", E |-> "e", F |-> "f", G |-> "g", H |-> "h", I |-> "i", J |-> "j", K |-> "k", L |-> "l", M |-> "m", N |-> "n", O |-> "o", P |-> "p", Q |-> "q", R |-> "r", S |-> "s", T |-> "t", U |-> "u", V |-> "v", W |-> "w", X |-> "x", Y |-> "y", Z |-> "z"]

\* str.lower()
Lower(s) == [i \in 1..Len(s) |-> IF s[i] \in DOMAIN UpperToLower THEN UpperToLower[s[i]] ELSE s[i]]

\* needle in hay
Contains(hay, needle) == \E i \in 0..(Len(hay) - Len(needle)) : SubSeq(hay, i + 1, i + Len(needle)) = needle

Whitespace == {" ", "\t", "\n"}

RECURSIVE LStrip(_)
LStrip(s) == IF s # <<>> /\ Head(s) \in Whitespace THEN LStrip(Tail(s)) ELSE s

RECURSIVE RStrip(_)
RStrip(s) == IF s # <<>> /\ s[Len(s)] \in Whitespace THEN RStrip(SubSeq(s, 1, Len(s) - 1)) ELSE s

\* str.strip()
Strip(s) == RStrip(LStrip(s))

NeedleCredits == <<"i","n","s","u","f","f","i","c","i","e","n","t"," ","c","r","e","d","i","t","s">>
Needle402 == <<"4","0","2">>
NeedleAuth == <<"a","u","t","h","e","n","t","i","c","a","t","i","o","n">>
Needle401 == <<"4","0","1">>

\* messages of the ValueErrors the code raises itself
MsgKeyRequired == <<"O","P","E","N","R","O","U","T","E","R","_","A","P","I","_","K","E","Y"," ","e","n","v","i","r","o","n","m","e","n","t"," ","v","a","r","i","a","b","l","e"," ","i","s"," ","r","e","q","u","i","r","e","d">>
MsgKeyEmpty == <<"O","P","E","N","R","O","U","T","E","R","_","A","P","I","_","K","E","Y"," ","e","n","v","i","r","o","n","m","e","n","t"," ","v","a","r","i","a","b","l","e"," ","c","a","n","n","o","t"," ","b","e"," ","e","m","p","t","y">>
MsgKeyRequiredOrEmpty == <<"O","P","E","N","R","O","U","T","E","R","_","A","P","I","_","K","E","Y"," ","e","n","v","i","r","o","n","m","e","n","t"," ","v","a","r","i","a","b","l","e"," ","i","s"," ","r","e","q","u","i","r","e","d"," ","a","n","d"," ","c","a","n","n","o","t"," ","b","e"," ","e","m","p","t","y">>
MsgNotFound == <<"M","o","d","e","l"," ","n","o","t"," ","f","o","u","n","d"," ","i","n"," ","f","r","e","e"," ","m","o","d","e","l","s">>
MsgUnknownType == <<"U","n","k","n","o","w","n"," ","m","o","d","e","l"," ","t","y","p","e">>
MsgNoAttribute == <<"_","s","k","i","p","_","o","p","e","n","r","o","u","t","e","r","_","d","u","e","_","t","o","_","c","r","e","d","i","t","s">>

\* messages of the exceptions a provider's client constructor may raise
MsgCredits == <<"I","n","s","u","f","f","i","c","i","e","n","t"," ","c","r","e","d","i","t","s">>
Msg402 == <<"E","r","r","o","r"," ","c","o","d","e",":"," ","4","0","2">>
MsgAuth == <<"A","u","t","h","e","n","t","i","c","a","t","i","o","n"," ","f","a","i","l","e","d">>
Msg401 == <<"E","r","r","o","r"," ","c","o","d","e",":"," ","4","0","1">>
MsgBoth == <<"4","0","1"," ","(","t","r","a","c","e"," ","4","0","2",")">>
MsgOther == <<"C","o","n","n","e","c","t","i","o","n"," ","t","i","m","e","o","u","t">>

\* messages explored for the ChatOpenAI constructor
FreeMessages == {MsgCredits, Msg402, MsgAuth, Msg401, MsgBoth, MsgOther}

\* messages explored for the ChatGoogleGenerativeAI constructor
PaidMessages == {Msg402, MsgOther}

----------------------------------------------------------------------------
(* Values *)

None == [present |-> FALSE]

Some(v) == [present |-> TRUE, value |-> v]

\* bool(x) of an Optional[str]
Truthy(x) == x.present /\ x.value # <<>>

\* values of the environment variable OPENROUTER_API_KEY
EnvValues == {None, Some(<<>>), Some(<<" ">>), Some(<<" ","k"," ">>), Some(<<"j">>)}

Raise(exc, m) == [kind |-> "raise", exc |-> exc, msg |-> m]

IsRaise(r) == r.kind = "raise"

----------------------------------------------------------------------------
(* OpenRouterConfig *)

\* OpenRouterConfig.base_url
base_url == "https://openrouter.ai/api/v1"

\* OpenRouterConfig.FREE_MODELS as the class statement defines it
FREE_MODELS == [n \in {"gpt-oss-20b", "deepseek-chat-v3-0324", "deepseek-r1-0528", "deepseek-r1", "deepseek-r1-distill-llama-70b"} |->
    CASE n = "gpt-oss-20b" -> [provider |-> "openai", model |-> "openai/gpt-oss-20b:free", context_length |-> 8192, free |-> TRUE]
      [] n = "deepseek-chat-v3-0324" -> [provider |-> "deepseek", model |-> "deepseek/deepseek-chat-v3-0324:free", context_length |-> 8192, free |-> TRUE]
      [] n = "deepseek-r1-0528" -> [provider |-> "deepseek", model |-> "deepseek/deepseek-r1-0528:free", context_length |-> 8192, free |-> TRUE]
      [] n = "deepseek-r1" -> [provider |-> "deepseek", model |-> "deepseek/deepseek-r1:free", context_length |-> 8192, free |-> TRUE]
      [] n = "deepseek-r1-distill-llama-70b" -> [provider |-> "deepseek", model |-> "deepseek/deepseek-r1-distill-llama-70b:free", context_length |-> 8192, free |-> TRUE]]

\* OpenRouterConfig.get_free_model_config: the entry, or ValueError
get_free_model_config(model_name) ==
    IF model_name \notin DOMAIN free_models
    THEN Raise("ValueError", MsgNotFound)
    ELSE [kind |-> "value", value |-> free_models[model_name]]

\* OpenRouterConfig.validate_api_key: the stripped key, or ValueError
validate_api_key(api_key) ==
    IF ~Truthy(api_key)
    THEN Raise("ValueError", MsgKeyRequired)
    ELSE IF Strip(api_key.value) = <<>>
    THEN Raise("ValueError", MsgKeyEmpty)
    ELSE [kind |-> "value", value |-> Strip(api_key.value)]

----------------------------------------------------------------------------
(* Configuration *)

Roles == {"query_generator", "reflection", "answer"}

\* the model_type arguments explored: the three roles and one other value
ModelTypes == Roles \cup {"summarizer"}

\* the (query_generator_model, reflection_model, answer_model) settings explored
ModelTriples ==
    {<<"gpt-oss-20b", "deepseek-r1", "gemini-2.5-pro">>, <<"gemini-2.5-pro", "gemini-2.0-flash", "gpt-oss-20b">>, <<"gpt-oss-20b", "llama-3.1-8b-instruct", "gemini-2.5-pro">>}

\* the identifiers of the Gemini models the application offers
gemini_models == {"gemini-2.0-flash", "gemini-2.5-flash", "gemini-2.5-pro"}

\* the Configuration objects explored
Configs == {[query_generator_model |-> t[1], reflection_model |-> t[2], answer_model |-> t[3], use_openrouter |-> u, gemini_api_key |-> "PK"] : t \in ModelTriples, u \in BOOLEAN}

\* the (temperature in tenths, max_retries) arguments explored
Params == {<<7, 2>>, <<0, 5>>}

----------------------------------------------------------------------------
(* LLMFactory *)

\* the model every fallback uses
DefaultModel == "gemini-2.0-flash"

\* events of a call's trace: the function called, the model name it was given,
\* whether it raised
Event(ev, model, result) == [ev |-> ev, model |-> model, raised |-> IsRaise(result)]

Count(trace, ev) == Cardinality({i \in 1..Len(trace) : trace[i].ev = ev})

Done(result, trace) == [result |-> result, trace |-> trace]

\* the try statement was not entered
NotTried == [kind |-> "none"]

\* LLMFactory._is_openrouter_model
is_openrouter_model(model_name) == model_name \in DOMAIN free_models

\* the constructor ChatGoogleGenerativeAI(model, temperature, max_retries, api_key):
\* every way the call can end, a client or an exception of the library
ChatGoogleGenerativeAI(model, temperature, max_retries, api_key) ==
    {[kind |-> "client", class |-> "ChatGoogleGenerativeAI", model |-> model, temperature |-> temperature, max_retries |-> max_retries, api_key |-> api_key]}
        \cup {Raise("GoogleGenerativeAIError", m) : m \in PaidMessages}

\* the constructor ChatOpenAI(model, openai_api_key, openai_api_base, temperature,
\* max_retries, streaming, request_timeout): every way the call can end
ChatOpenAI(model, openai_api_key, openai_api_base, temperature, max_retries, streaming, request_timeout) ==
    {[kind |-> "client", class |-> "ChatOpenAI", model |-> model, openai_api_key |-> openai_api_key, openai_api_base |-> openai_api_base, temperature |-> temperature, max_retries |-> max_retries, streaming |-> streaming, request_timeout |-> request_timeout]}
        \cup {Raise("OpenAIError", m) : m \in FreeMessages}

\* mutant of create_gemini_llm: the client keeps the default of max_retries
create_gemini_llm_DefaultRetries(cfg, model_name, temperature, max_retries) ==
    {Done(x, <<Event("ChatGoogleGenerativeAI", model_name, x)>>) : x \in ChatGoogleGenerativeAI(model_name, temperature, 2, cfg.gemini_api_key)}

\* LLMFactory._create_gemini_llm: every way the call can end
create_gemini_llm(cfg, model_name, temperature, max_retries) ==
    {Done(x, <<Event("ChatGoogleGenerativeAI", model_name, x)>>) : x \in ChatGoogleGenerativeAI(model_name, temperature, max_retries, cfg.gemini_api_key)}

\* LLMFactory._create_openrouter_llm: every way the call can end
create_openrouter_llm(api_key_field, model_name, temperature, max_retries) ==
    LET api_key == validate_api_key(api_key_field)
        model_config == get_free_model_config(model_name)
        missing == Raise("ValueError", MsgKeyRequiredOrEmpty)
    IN  IF IsRaise(api_key) THEN {Done(api_key, <<Event("_create_openrouter_llm", model_name, api_key)>>)}
        ELSE IF api_key.value = <<>> THEN {Done(missing, <<Event("_create_openrouter_llm", model_name, missing)>>)}
        ELSE IF IsRaise(model_config)
        THEN {Done(model_config, <<Event("_create_openrouter_llm", model_name, model_config), Event("get_free_model_config", model_name, model_config)>>)}
        ELSE {Done(x, <<Event("_create_openrouter_llm", model_name, x), Event("get_free_model_config", model_name, model_config), Event("ChatOpenAI", model_config.value.model, x)>>) :
                 x \in ChatOpenAI(model_config.value.model, api_key.value, base_url, temperature, max_retries, FALSE, 60)}

\* mutant of ModelNameOf: two branches of the chain read each other's field
ModelNameOf_Swapped(cfg, model_type) ==
    CASE model_type = "query_generator" -> cfg.query_generator_model
      [] model_type = "reflection" -> cfg.answer_model
      [] model_type = "answer" -> cfg.reflection_model

\* the model name of a role: the if/elif chain at the head of create_llm
ModelNameOf(cfg, model_type) ==
    CASE model_type = "query_generator" -> cfg.query_generator_model
      [] model_type = "reflection" -> cfg.reflection_model
      [] model_type = "answer" -> cfg.answer_model

\* mutant of IsFreeTier: use_openrouter is not consulted
IsFreeTier_IgnoreFlag(cfg, model_name) == is_openrouter_model(model_name)

\* the condition "it's an OpenRouter model and OpenRouter is enabled"
IsFreeTier(cfg, model_name) == is_openrouter_model(model_name) /\ cfg.use_openrouter

\* the test "not os.getenv('OPENROUTER_API_KEY')"
CredentialAbsent(environ) == ~Truthy(environ)

\* mutant of TryBody: the fallbacks of the try body keep the requested model name
TryBody_KeepName(self, environ, model_name, temperature, max_retries) ==
    IF IsFreeTier(self.config, model_name)
    THEN IF CredentialAbsent(environ)
         THEN create_gemini_llm(self.config, model_name, temperature, max_retries)
         ELSE IF self.skip
         THEN create_gemini_llm(self.config, model_name, temperature, max_retries)
         ELSE create_openrouter_llm(self.openrouter_api_key, model_name, temperature, max_retries)
    ELSE create_gemini_llm(self.config, model_name, temperature, max_retries)

\* the body of the try statement of create_llm: every way it can end
TryBody(self, environ, model_name, temperature, max_retries) ==
    IF IsFreeTier(self.config, model_name)
    THEN IF CredentialAbsent(environ)
         THEN create_gemini_llm(self.config, DefaultModel, temperature, max_retries)
         ELSE IF self.skip
         THEN create_gemini_llm(self.config, DefaultModel, temperature, max_retries)
         ELSE create_openrouter_llm(self.openrouter_api_key, model_name, temperature, max_retries)
    ELSE create_gemini_llm(self.config, model_name, temperature, max_retries)

\* mutant of Classify: the authentication test comes first
Classify_AuthFirst(msg) ==
    LET error_message == Lower(msg)
    IN  IF Contains(error_message, NeedleAuth) \/ Contains(error_message, Needle401) THEN "auth"
        ELSE IF Contains(error_message, NeedleCredits) \/ Contains(error_message, Needle402) THEN "credits"
        ELSE "other"

\* the classification of str(e).lower() in the except clause
Classify(msg) ==
    LET error_message == Lower(msg)
    IN  IF Contains(error_message, NeedleCredits) \/ Contains(error_message, Needle402) THEN "credits"
        ELSE IF Contains(error_message, NeedleAuth) \/ Contains(error_message, Needle401) THEN "auth"
        ELSE "other"

\* mutant of SkipAfter: the except clause forgets to set the flag
SkipAfter_NeverSet(class, skip_flag) == skip_flag

\* mutant of SkipAfter: the flag is set on an authentication failure too
SkipAfter_SetOnAuth(class, skip_flag) == IF class \in {"credits", "auth"} THEN TRUE ELSE skip_flag

\* mutant of SkipAfter: the flag is assigned the outcome of the credit test
SkipAfter_Assign(class, skip_flag) == class = "credits"

\* mutant of SkipAfter: a credit failure flips the flag, so that a second one
\* undoes the first
SkipAfter_Toggle(class, skip_flag) == IF class = "credits" THEN ~skip_flag ELSE skip_flag

\* the flag after the except clause has classified the error
SkipAfter(class, skip_flag) == IF class = "credits" THEN TRUE ELSE skip_flag

\* what a call of create_llm did: its result (a client, or the exception it
\* raised), the flag afterwards, the calls it made, how the try body ended
Call(result, skip_flag, trace, tried) == [result |-> result, skip |-> skip_flag, trace |-> trace, tried |-> tried]

\* mutant of ExceptClause: an error that is neither a credit nor an authentication
\* failure is raised again
ExceptClause_Reraise(self, tried, temperature, max_retries) ==
    IF Classify(tried.result.msg) = "other"
    THEN {Call(tried.result, self.skip, tried.trace, tried.result)}
    ELSE {Call(fallback.result, SkipAfter(Classify(tried.result.msg), self.skip), tried.trace \o fallback.trace, tried.result) :
             fallback \in create_gemini_llm(self.config, DefaultModel, temperature, max_retries)}

\* the except clause of create_llm, entered with the exception of the try body:
\* every branch returns _create_gemini_llm("gemini-2.0-flash", ...)
ExceptClause(self, tried, temperature, max_retries) ==
    {Call(fallback.result, SkipAfter(Classify(tried.result.msg), self.skip), tried.trace \o fallback.trace, tried.result) :
        fallback \in create_gemini_llm(self.config, DefaultModel, temperature, max_retries)}

\* LLMFactory.create_llm: every way the call can end
create_llm(self, environ, model_type, temperature, max_retries) ==
    IF model_type \notin Roles
    THEN {Call(Raise("ValueError", MsgUnknownType), self.skip, <<>>, NotTried)}
    ELSE UNION {IF IsRaise(tried.result)
                THEN ExceptClause(self, tried, temperature, max_retries)
                ELSE {Call(tried.result, self.skip, tried.trace, tried.result)} :
                    tried \in TryBody(self, environ, ModelNameOf(self.config, model_type), temperature, max_retries)}

\* hasattr(self, '_skip_openrouter_due_to_credits')
hasattr(skip_flag) == skip_flag

\* delattr(self, '_skip_openrouter_due_to_credits'): AttributeError when there is
\* no such attribute
delattr(skip_flag) ==
    IF skip_flag
    THEN [result |-> [kind |-> "value"], skip |-> FALSE]
    ELSE [result |-> Raise("AttributeError", MsgNoAttribute), skip |-> skip_flag]

\* mutant of reset_call: the attribute is deleted without the presence test
reset_call_Unguarded(skip_flag) == delattr(skip_flag)

\* the body of reset_openrouter_credits_flag: how the call ends and the flag afterwards
reset_call(skip_flag) ==
    IF hasattr(skip_flag)
    THEN delattr(skip_flag)
    ELSE [result |-> [kind |-> "value"], skip |-> skip_flag]

\* mutant of reset_openrouter_credits_flag: the attribute is not deleted
reset_openrouter_credits_flag_Noop(skip_flag) == skip_flag

\* LLMFactory.reset_openrouter_credits_flag: the flag afterwards
reset_openrouter_credits_flag(skip_flag) == reset_call(skip_flag).skip

----------------------------------------------------------------------------
(* The engine as a state machine: one factory, called sequentially *)

\* the factory object: its attributes
Self == [config |-> config, openrouter_api_key |-> openrouter_api_key, skip |-> skip]

\* the role's model name is a catalog member and use_openrouter is set
FreeTierRole(model_type) == model_type \in Roles /\ IsFreeTier(config, ModelNameOf(config, model_type))

\* what the observer keeps while no scenario is being counted
HistOff == [on |-> FALSE, calls |-> 0, free |-> 0]

\* the threads
Threads == 1..NumThreads

\* a thread that is in no call of the factory
Idle == [pc |-> "idle", model_name |-> "", e |-> <<>>, free_failed |-> FALSE, credit |-> FALSE, after |-> FALSE]

\* nothing has been called yet
ObsInit == [started |-> 0, credit_calls |-> 0, concurrent |-> FALSE, reset_ran |-> FALSE]

\* the second factory has not been constructed
NoFactory == [made |-> FALSE, openrouter_api_key |-> None, skip |-> FALSE]

\* LLMFactory.__init__: config is stored, OpenRouterConfig() reads the key from
\* the environment, and the flag attribute does not exist yet
Init ==
    /\ config \in Configs
    /\ env \in EnvValues
    /\ openrouter_api_key = env
    /\ skip = FALSE
    /\ last = [op |-> "__init__"]
    /\ by_credits = FALSE
    /\ hist = HistOff
    /\ os_environ = <<>>
    /\ made = [op |-> "none"]
    /\ th = [t \in Threads |-> Idle]
    /\ obs = ObsInit
    /\ free_models = FREE_MODELS
    /\ other = NoFactory

\* the free-tier constructor was entered and failed with a credit-limit message
FreeCreditsFailure(r) ==
    /\ Count(r.trace, "_create_openrouter_llm") > 0
    /\ IsRaise(r.tried)
    /\ Classify(r.tried.msg) = "credits"

\* the call keeps to the scenario "free-tier role, credential present, and the
\* free tier, whenever it is tried, is out of credits"
InScenario(model_type, r) ==
    /\ FreeTierRole(model_type)
    /\ ~CredentialAbsent(env)
    /\ Count(r.trace, "_create_openrouter_llm") > 0 => FreeCreditsFailure(r)

\* the observer after a call: it counts the calls of a scenario as long as it lasts
HistAfter(model_type, r) ==
    IF hist.on /\ InScenario(model_type, r)
    THEN [on |-> TRUE, calls |-> hist.calls + 1, free |-> hist.free + Count(r.trace, "_create_openrouter_llm")]
    ELSE HistOff

\* one call factory.create_llm(model_type, temperature, max_retries)
CreateLLM(model_type, temperature, max_retries) ==
    /\ hist.calls < MaxCalls
    /\ \E r \in create_llm(Self, env, model_type, temperature, max_retries) :
           /\ skip' = r.skip
           /\ last' = [op |-> "create_llm", model_type |-> model_type, temperature |-> temperature, max_retries |-> max_retries, skip_before |-> skip, result |-> r.result, tried |-> r.tried, trace |-> r.trace]
           /\ by_credits' = IF ~skip /\ r.skip THEN FreeCreditsFailure(r) ELSE by_credits
           /\ hist' = HistAfter(model_type, r)
    /\ UNCHANGED <<config, free_models, other, openrouter_api_key, env, os_environ, made, th, obs>>

\* one call factory.reset_openrouter_credits_flag()
ResetFlag ==
    /\ skip' = reset_openrouter_credits_flag(skip)
    /\ last' = [op |-> "reset_openrouter_credits_flag", skip_before |-> skip, result |-> reset_call(skip).result, prev_op |-> last.op]
    /\ by_credits' = FALSE
    /\ hist' = IF skip /\ by_credits THEN [on |-> TRUE, calls |-> 0, free |-> 0] ELSE HistOff
    /\ UNCHANGED <<config, free_models, other, openrouter_api_key, env, os_environ, made, th, obs>>

\* the process environment changes between two calls
SetEnv(v) ==
    /\ v # env
    /\ env' = v
    /\ last' = [op |-> "os.environ", skip_before |-> skip]
    /\ UNCHANGED <<config, free_models, other, openrouter_api_key, skip, by_credits, hist, os_environ, made, th, obs>>

Next ==
    \/ \E model_type \in ModelTypes, p \in Params : CreateLLM(model_type, p[1], p[2])
    \/ ResetFlag
    \/ \E v \in EnvValues : SetEnv(v)

Spec == Init /\ [][Next]_vars

----------------------------------------------------------------------------
(* Configuration: how an instance is constructed *)

LowerToUpper == [a |-> "A", b |-> "B", c |-> "C", d |-> "D", e |-> "E", f |-> "F", g |-> "G", h |-> "H", i |-> "I", j |-> "J", k |-> "K", l |-> "L", m |-> "M", n |-> "N", o |-> "O", p |-> "P", q |-> "Q", r |-> "R", s |-> "S", t |-> "T", u |-> "U", v |-> "V", w |-> "W", x |-> "X", y |-> "Y", z |-> "Z"]

\* str.upper()
Upper(s) == [i \in 1..Len(s) |-> IF s[i] \in DOMAIN LowerToUpper THEN LowerToUpper[s[i]] ELSE s[i]]

\* Python values: None, a str, a bool, an int, a dict
PyNone == [t |-> "None"]

PyStr(s) == [t |-> "str", s |-> s]

PyBool(b) == [t |-> "bool", b |-> b]

PyInt(n) == [t |-> "int", n |-> n]

PyDict(d) == [t |-> "dict", d |-> d]

\* dict.get(key, default), the dict being a function
dict_get(d, key, default) == IF key \in DOMAIN d THEN d[key] ELSE default

\* os.environ.get(key, default) and os.getenv(key)
environ_get(environ, key, default) == IF key \in DOMAIN environ THEN PyStr(environ[key]) ELSE default

getenv(environ, key) == environ_get(environ, key, PyNone)

\* the names of the fields of Configuration
F_query_generator_model == <<"q","u","e","r","y","_","g","e","n","e","r","a","t","o","r","_","m","o","d","e","l">>
F_reflection_model == <<"r","e","f","l","e","c","t","i","o","n","_","m","o","d","e","l">>
F_answer_model == <<"a","n","s","w","e","r","_","m","o","d","e","l">>
F_use_openrouter == <<"u","s","e","_","o","p","e","n","r","o","u","t","e","r">>
F_gemini_api_key == <<"g","e","m","i","n","i","_","a","p","i","_","k","e","y">>
F_number_of_initial_queries == <<"n","u","m","b","e","r","_","o","f","_","i","n","i","t","i","a","l","_","q","u","e","r","i","e","s">>
F_max_research_loops == <<"m","a","x","_","r","e","s","e","a","r","c","h","_","l","o","o","p","s">>

\* Configuration.model_fields.keys()
model_fields == {F_query_generator_model, F_reflection_model, F_answer_model, F_use_openrouter, F_gemini_api_key, F_number_of_initial_queries, F_max_research_loops}

\* the annotation of a field
FieldType(name) ==
    CASE name = F_use_openrouter -> "bool"
      [] name \in {F_number_of_initial_queries, F_max_research_loops} -> "int"
      [] OTHER -> "str"

\* the default or the default_factory of a field
FieldDefault(environ, name) ==
    CASE name \in {F_query_generator_model, F_reflection_model, F_answer_model} -> PyStr("gpt-oss-20b")
      [] name = F_use_openrouter -> PyBool(TRUE)
      [] name = F_gemini_api_key -> getenv(environ, <<"G","E","M","I","N","I","_","A","P","I","_","K","E","Y">>)
      [] name = F_number_of_initial_queries -> PyInt(3)
      [] name = F_max_research_loops -> PyInt(2)

\* the strings a bool field accepts, lower-cased
TrueStrings == {<<"1">>, <<"o","n">>, <<"t">>, <<"t","r","u","e">>, <<"y">>, <<"y","e","s">>}

FalseStrings == {<<"0">>, <<"o","f","f">>, <<"f">>, <<"f","a","l","s","e">>, <<"n">>, <<"n","o">>}

Digits == [c \in {"0", "1", "2", "3", "4", "5", "6", "7", "8", "9"} |-> CASE c = "0" -> 0 [] c = "1" -> 1 [] c = "2" -> 2 [] c = "3" -> 3 [] c = "4" -> 4 [] c = "5" -> 5 [] c = "6" -> 6 [] c = "7" -> 7 [] c = "8" -> 8 [] c = "9" -> 9]

\* int(s) of a string of digits
RECURSIVE ParseInt(_)
ParseInt(s) == IF s = <<>> THEN 0 ELSE 10 * ParseInt(SubSeq(s, 1, Len(s) - 1)) + Digits[s[Len(s)]]

MsgValidation == <<"v","a","l","i","d","a","t","i","o","n"," ","e","r","r","o","r"," ","f","o","r"," ","C","o","n","f","i","g","u","r","a","t","i","o","n">>

\* a value supplied for a field passes the validation of the field's type
Valid(name, v) ==
    CASE FieldType(name) = "str" -> v.t = "str"
      [] FieldType(name) = "bool" -> v.t = "bool" \/ (v.t = "str" /\ Lower(v.s) \in TrueStrings \cup FalseStrings)
      [] FieldType(name) = "int" -> v.t = "int" \/ (v.t = "str" /\ v.s # <<>> /\ \A i \in 1..Len(v.s) : v.s[i] \in DOMAIN Digits)

\* the value a field takes from a valid value supplied for it
Validate(name, v) ==
    CASE FieldType(name) = "str" -> v
      [] FieldType(name) = "bool" -> IF v.t = "bool" THEN v ELSE PyBool(Lower(v.s) \in TrueStrings)
      [] FieldType(name) = "int" -> IF v.t = "int" THEN v ELSE PyInt(ParseInt(v.s))

\* Configuration(**kwargs): a field takes the validated keyword argument of its
\* name, else its default; the environment is read by the default_factory only
Configuration(environ, kwargs) ==
    IF \E name \in DOMAIN kwargs \cap model_fields : ~Valid(name, kwargs[name])
    THEN Raise("ValidationError", MsgValidation)
    ELSE [kind |-> "Configuration",
          fields |-> [name \in model_fields |-> IF name \in DOMAIN kwargs THEN Validate(name, kwargs[name]) ELSE FieldDefault(environ, name)]]

\* Configuration.from_runnable_config(config)
from_runnable_config(environ, runnable_config) ==
    LET configurable ==
            IF runnable_config.t = "dict" /\ DOMAIN runnable_config.d # {} /\ "configurable" \in DOMAIN runnable_config.d
            THEN runnable_config.d["configurable"]
            ELSE <<>>
        raw_values == [name \in model_fields |-> environ_get(environ, Upper(name), dict_get(configurable, name, PyNone))]
        kept == {name \in model_fields : raw_values[name] # PyNone}
        values == [name \in kept |-> raw_values[name]]
    IN  Configuration(environ, values)

\* the names of the environment variables explored: the upper-cased field names
\* and one name in lower case
EnvNames == {Upper(name) : name \in model_fields} \cup {F_query_generator_model}

\* the values explored for an environment variable
ConfigEnvValues(key) ==
    CASE key = Upper(F_use_openrouter) -> {<<"f","a","l","s","e">>, <<"T","r","u","e">>}
      [] key = Upper(F_number_of_initial_queries) -> {<<"5">>}
      [] key = Upper(F_max_research_loops) -> {<<"4">>}
      [] key = Upper(F_gemini_api_key) -> {"PK"}
      [] key = F_query_generator_model -> {"deepseek-r1"}
      [] OTHER -> {"gemini-2.5-pro"}

\* the keyword arguments explored
Kwargs ==
    {<<>>,
     F_query_generator_model :> PyStr("deepseek-r1"),
     (F_answer_model :> PyStr("gemini-2.0-flash")) @@ (F_use_openrouter :> PyBool(FALSE))}

\* the RunnableConfig arguments explored
RunnableConfigs ==
    {PyNone, PyDict(<<>>), PyDict("tags" :> <<>>), PyDict("configurable" :> <<>>),
     PyDict("configurable" :> (F_query_generator_model :> PyStr("deepseek-r1"))),
     PyDict("configurable" :> ((F_use_openrouter :> PyBool(TRUE)) @@ (F_max_research_loops :> PyInt(1)) @@ (<<"t","h","r","e","a","d","_","i","d">> :> PyStr("1"))))}

\* os.environ[key] = value
Putenv(key, value) ==
    /\ key \in DOMAIN os_environ => os_environ[key] # value
    /\ os_environ' = [k \in DOMAIN os_environ \cup {key} |-> IF k = key THEN value ELSE os_environ[k]]
    /\ made' = [op |-> "os.environ"]
    /\ UNCHANGED <<config, free_models, other, openrouter_api_key, skip, env, last, by_credits, hist, th, obs>>

\* del os.environ[key]
Unsetenv(key) ==
    /\ key \in DOMAIN os_environ
    /\ os_environ' = [k \in DOMAIN os_environ \ {key} |-> os_environ[k]]
    /\ made' = [op |-> "os.environ"]
    /\ UNCHANGED <<config, free_models, other, openrouter_api_key, skip, env, last, by_credits, hist, th, obs>>

\* Configuration(**kwargs)
Construct(kwargs) ==
    /\ made' = [op |-> "Configuration", kwargs |-> kwargs, result |-> Configuration(os_environ, kwargs)]
    /\ made' # made
    /\ UNCHANGED <<config, free_models, other, openrouter_api_key, skip, env, last, by_credits, hist, os_environ, th, obs>>

\* Configuration.from_runnable_config(runnable_config)
FromRunnableConfig(runnable_config) ==
    /\ made' = [op |-> "from_runnable_config", config |-> runnable_config, result |-> from_runnable_config(os_environ, runnable_config)]
    /\ made' # made
    /\ UNCHANGED <<config, free_models, other, openrouter_api_key, skip, env, last, by_credits, hist, os_environ, th, obs>>

\* no factory is used while configurations are constructed
InitConfig ==
    /\ config = [query_generator_model |-> "gpt-oss-20b", reflection_model |-> "gpt-oss-20b", answer_model |-> "gpt-oss-20b", use_openrouter |-> TRUE, gemini_api_key |-> "PK"]
    /\ env = None
    /\ openrouter_api_key = None
    /\ skip = FALSE
    /\ last = [op |-> "__init__"]
    /\ by_credits = FALSE
    /\ hist = HistOff
    /\ os_environ = <<>>
    /\ made = [op |-> "none"]
    /\ th = [t \in Threads |-> Idle]
    /\ obs = ObsInit
    /\ free_models = FREE_MODELS
    /\ other = NoFactory

NextConfig ==
    \/ \E key \in EnvNames : \E value \in ConfigEnvValues(key) : Putenv(key, value)
    \/ \E key \in EnvNames : Unsetenv(key)
    \/ \E kwargs \in Kwargs : Construct(kwargs)
    \/ \E runnable_config \in RunnableConfigs : FromRunnableConfig(runnable_config)

SpecConfig == InitConfig /\ [][NextConfig]_vars

----------------------------------------------------------------------------
(* The engine called by several threads: create_llm and                    *)
(* reset_openrouter_credits_flag step by step. A step is what a thread     *)
(* does between two points where another thread can run: the test of the   *)
(* flag, a constructor call, the except clause, the deletion of the flag.  *)

\* the default temperature and max_retries of create_llm, in tenths and as is
DefaultTemperature == 7
DefaultMaxRetries == 2

\* the factory has no lock: nothing is shared but the attributes
UnchangedFactory == UNCHANGED <<config, free_models, other, openrouter_api_key, env, last, by_credits, hist, os_environ, made>>

\* a call observed a credit-limit failure of the free tier and has returned, and
\* no reset has run
CreditReturned == obs.credit_calls >= 1 /\ ~obs.reset_ran

\* thread t enters create_llm(model_type): the model name is resolved and the
\* conditions on the catalog, use_openrouter and OPENROUTER_API_KEY are evaluated
Begin(t, model_type) ==
    /\ th[t].pc = "idle"
    /\ obs.started < MaxStarted
    /\ LET model_name == ModelNameOf(config, model_type)
       IN  th' = [th EXCEPT ![t] =
                    IF IsFreeTier(config, model_name)
                    THEN IF CredentialAbsent(env)
                         THEN [Idle EXCEPT !.pc = "paid", !.model_name = DefaultModel, !.after = CreditReturned]
                         ELSE [Idle EXCEPT !.pc = "check", !.model_name = model_name, !.after = CreditReturned]
                    ELSE [Idle EXCEPT !.pc = "paid", !.model_name = model_name, !.after = CreditReturned]]
    /\ obs' = [obs EXCEPT !.started = @ + 1]
    /\ UNCHANGED skip
    /\ UnchangedFactory

\* thread t tests hasattr(self, '_skip_openrouter_due_to_credits')
Check(t) ==
    /\ th[t].pc = "check"
    /\ th' = [th EXCEPT ![t] = IF hasattr(skip) THEN [@ EXCEPT !.pc = "paid", !.model_name = DefaultModel] ELSE [@ EXCEPT !.pc = "free"]]
    /\ UNCHANGED <<skip, obs>>
    /\ UnchangedFactory

\* the call of thread t ends, by a return or by an exception that leaves create_llm
EndCall(t) ==
    /\ th' = [th EXCEPT ![t] = Idle]
    /\ obs' = IF th[t].credit THEN [obs EXCEPT !.credit_calls = IF @ < 2 THEN @ + 1 ELSE @] ELSE obs

\* another thread has observed a credit-limit failure of the free tier and is
\* still in its call
OtherObserved(t) ==
    \E u \in Threads \ {t} :
        \/ th[u].pc = "except" /\ th[u].free_failed /\ Classify(th[u].e) = "credits"
        \/ th[u].pc = "fallback" /\ th[u].credit

\* thread t calls _create_openrouter_llm: the client is returned, or the
\* exception is caught
Free(t) ==
    /\ th[t].pc = "free"
    /\ \E r \in create_openrouter_llm(openrouter_api_key, th[t].model_name, DefaultTemperature, DefaultMaxRetries) :
           IF IsRaise(r.result)
           THEN /\ th' = [th EXCEPT ![t] = [@ EXCEPT !.pc = "except", !.e = r.result.msg, !.free_failed = TRUE]]
                /\ obs' = [obs EXCEPT !.concurrent = @ \/ (Classify(r.result.msg) = "credits" /\ OtherObserved(t))]
           ELSE EndCall(t)
    /\ UNCHANGED skip
    /\ UnchangedFactory

\* thread t calls _create_gemini_llm inside the try statement: the client is
\* returned, or the exception is caught
Paid(t) ==
    /\ th[t].pc = "paid"
    /\ \E r \in create_gemini_llm(config, th[t].model_name, DefaultTemperature, DefaultMaxRetries) :
           IF IsRaise(r.result)
           THEN /\ th' = [th EXCEPT ![t] = [@ EXCEPT !.pc = "except", !.e = r.result.msg, !.after = FALSE]]
                /\ obs' = obs
           ELSE EndCall(t)
    /\ UNCHANGED skip
    /\ UnchangedFactory

\* thread t runs the except clause up to its call of _create_gemini_llm: the
\* message is classified and, for a credit-limit message, the flag is set
Except(t) ==
    /\ th[t].pc = "except"
    /\ skip' = SkipAfter(Classify(th[t].e), skip)
    /\ th' = [th EXCEPT ![t] = [@ EXCEPT !.pc = "fallback", !.model_name = DefaultModel, !.e = <<>>, !.free_failed = FALSE, !.after = FALSE,
                                          !.credit = th[t].free_failed /\ Classify(th[t].e) = "credits"]]
    /\ UNCHANGED obs
    /\ UnchangedFactory

\* thread t calls _create_gemini_llm("gemini-2.0-flash") in the except clause:
\* whatever it gives leaves create_llm
Fallback(t) ==
    /\ th[t].pc = "fallback"
    /\ \E r \in create_gemini_llm(config, th[t].model_name, DefaultTemperature, DefaultMaxRetries) : EndCall(t)
    /\ UNCHANGED skip
    /\ UnchangedFactory

\* thread t enters reset_openrouter_credits_flag and tests hasattr: without the
\* attribute the call is over
ResetCheck(t) ==
    /\ th[t].pc = "idle"
    /\ obs.started < MaxStarted
    /\ th' = [th EXCEPT ![t] = IF hasattr(skip) THEN [Idle EXCEPT !.pc = "delattr"] ELSE Idle]
    /\ obs' = [obs EXCEPT !.started = @ + 1, !.reset_ran = TRUE]
    /\ UNCHANGED skip
    /\ UnchangedFactory

\* thread t runs delattr: the attribute is deleted, or it is gone already and
\* AttributeError leaves the call
ResetDel(t) ==
    /\ th[t].pc = "delattr"
    /\ skip' = delattr(skip).skip
    /\ th' = [th EXCEPT ![t] = Idle]
    /\ UNCHANGED obs
    /\ UnchangedFactory

\* a factory with the free tier enabled and a credential, shared by the threads
InitConc ==
    /\ config = [query_generator_model |-> "gpt-oss-20b", reflection_model |-> "deepseek-r1", answer_model |-> "gemini-2.5-pro", use_openrouter |-> TRUE, gemini_api_key |-> "PK"]
    /\ env \in {Some(<<" ","k"," ">>), None}
    /\ openrouter_api_key = Some(<<" ","k"," ">>)
    /\ skip = FALSE
    /\ last = [op |-> "__init__"]
    /\ by_credits = FALSE
    /\ hist = HistOff
    /\ os_environ = <<>>
    /\ made = [op |-> "none"]
    /\ th = [t \in Threads |-> Idle]
    /\ obs = ObsInit
    /\ free_models = FREE_MODELS
    /\ other = NoFactory

NextConc ==
    \/ \E t \in Threads, model_type \in Roles : Begin(t, model_type)
    \/ \E t \in Threads : Check(t)
    \/ \E t \in Threads : Free(t)
    \/ \E t \in Threads : Paid(t)
    \/ \E t \in Threads : Except(t)
    \/ \E t \in Threads : Fallback(t)
    \/ \E t \in Threads : ResetCheck(t)
    \/ \E t \in Threads : ResetDel(t)

SpecConc == InitConc /\ [][NextConc]_vars

----------------------------------------------------------------------------
(* The threads, and code that changes the class-level dict FREE_MODELS     *)
(* while they run: nothing in the class makes the dict read-only.          *)

\* entries deleted from FREE_MODELS, at most
MaxDeleted == 1

\* del OpenRouterConfig.FREE_MODELS[model_name]
DelFreeModel(model_name) ==
    /\ model_name \in DOMAIN free_models
    /\ Cardinality(DOMAIN FREE_MODELS \ DOMAIN free_models) < MaxDeleted
    /\ free_models' = [n \in DOMAIN free_models \ {model_name} |-> free_models[n]]
    /\ UNCHANGED <<config, other, openrouter_api_key, skip, env, last, by_credits, hist, os_environ, made, th, obs>>

NextCatalog ==
    \/ NextConc
    \/ \E model_name \in DOMAIN FREE_MODELS : DelFreeModel(model_name)

SpecCatalog == InitConc /\ [][NextCatalog]_vars

----------------------------------------------------------------------------
(* Two LLMFactory objects in one process: the first is the factory of Init, *)
(* the second is constructed, and constructed anew, from the same          *)
(* Configuration. Each is called on its own.                               *)

\* the second factory object: its attributes
Other == [config |-> config, openrouter_api_key |-> other.openrouter_api_key, skip |-> other.skip]

\* mutant of FlagOfAnother: the flag is kept in the class, for all instances
FlagOfAnother_InClass(before, after, flag) == IF after # before THEN after ELSE flag

\* the flag of another instance after a call has taken the flag of self from
\* before to after: the call assigns and deletes the attribute of self only
FlagOfAnother(before, after, flag) == flag

\* LLMFactory(config) for the second object: __init__ stores config and
\* OpenRouterConfig(), and creates no flag attribute
NewFactory ==
    /\ other' = [made |-> TRUE, openrouter_api_key |-> env, skip |-> FALSE]
    /\ last' = [op |-> "__init__", self |-> "other", skip_before |-> skip, other_before |-> other.skip]
    /\ UNCHANGED <<config, free_models, openrouter_api_key, skip, env, by_credits, hist, os_environ, made, th, obs>>

\* one call create_llm(model_type) of the first factory
CreateFirst(model_type) ==
    /\ \E r \in create_llm(Self, env, model_type, DefaultTemperature, DefaultMaxRetries) :
           /\ skip' = r.skip
           /\ other' = [other EXCEPT !.skip = FlagOfAnother(skip, r.skip, @)]
           /\ last' = [op |-> "create_llm", self |-> "first", skip_before |-> skip, other_before |-> other.skip]
    /\ UNCHANGED <<config, free_models, openrouter_api_key, env, by_credits, hist, os_environ, made, th, obs>>

\* one call create_llm(model_type) of the second factory
CreateOther(model_type) ==
    /\ other.made
    /\ \E r \in create_llm(Other, env, model_type, DefaultTemperature, DefaultMaxRetries) :
           /\ other' = [other EXCEPT !.skip = r.skip]
           /\ skip' = FlagOfAnother(other.skip, r.skip, skip)
           /\ last' = [op |-> "create_llm", self |-> "other", skip_before |-> skip, other_before |-> other.skip]
    /\ UNCHANGED <<config, free_models, openrouter_api_key, env, by_credits, hist, os_environ, made, th, obs>>

\* one call reset_openrouter_credits_flag() of the first factory
ResetFirst ==
    /\ skip' = reset_openrouter_credits_flag(skip)
    /\ other' = [other EXCEPT !.skip = FlagOfAnother(skip, reset_openrouter_credits_flag(skip), @)]
    /\ last' = [op |-> "reset_openrouter_credits_flag", self |-> "first", skip_before |-> skip, other_before |-> other.skip]
    /\ UNCHANGED <<config, free_models, openrouter_api_key, env, by_credits, hist, os_environ, made, th, obs>>

\* one call reset_openrouter_credits_flag() of the second factory
ResetOther ==
    /\ other.made
    /\ other' = [other EXCEPT !.skip = reset_openrouter_credits_flag(@)]
    /\ skip' = FlagOfAnother(other.skip, reset_openrouter_credits_flag(other.skip), skip)
    /\ last' = [op |-> "reset_openrouter_credits_flag", self |-> "other", skip_before |-> skip, other_before |-> other.skip]
    /\ UNCHANGED <<config, free_models, openrouter_api_key, env, by_credits, hist, os_environ, made, th, obs>>

\* the process environment changes between two calls
SetEnvTwo(v) ==
    /\ v # env
    /\ env' = v
    /\ last' = [op |-> "os.environ", self |-> "", skip_before |-> skip, other_before |-> other.skip]
    /\ UNCHANGED <<config, free_models, other, openrouter_api_key, skip, by_credits, hist, os_environ, made, th, obs>>

NextTwo ==
    \/ NewFactory
    \/ \E model_type \in Roles : CreateFirst(model_type)
    \/ \E model_type \in Roles : CreateOther(model_type)
    \/ ResetFirst
    \/ ResetOther
    \/ \E v \in EnvValues : SetEnvTwo(v)

SpecTwo == Init /\ [][NextTwo]_vars

----------------------------------------------------------------------------
(* Vocabulary of the properties: what the last call was and did *)

IsCreate == last.op = "create_llm"

\* the last call was create_llm for one of the three roles
IsRoleCall == IsCreate /\ last.model_type \in Roles

\* the model name configured for the role of the last call
Requested == ModelNameOf(config, last.model_type)

\* the role of the last call is free-tier: catalog member and use_openrouter set
RoleIsFreeTier == Requested \in DOMAIN FREE_MODELS /\ config.use_openrouter

\* OPENROUTER_API_KEY is set to a non-empty value (create_llm does not change env)
CredentialPresent == env.present /\ env.value # <<>>

Returned == last.result.kind = "client"

Raised == last.result.kind = "raise"

\* calls of the free-tier constructor (_create_openrouter_llm) in the last call
FreeCalls == Count(last.trace, "_create_openrouter_llm")

\* calls of the paid-provider constructor in the last call
PaidCalls == Count(last.trace, "ChatGoogleGenerativeAI")

\* some paid-provider construction of the last call raised
PaidFailed == \E i \in 1..Len(last.trace) : last.trace[i].ev = "ChatGoogleGenerativeAI" /\ last.trace[i].raised

\* the free-tier constructor was called in the last call and raised
FreeFailed == \E i \in 1..Len(last.trace) : last.trace[i].ev = "_create_openrouter_llm" /\ last.trace[i].raised

\* the message of the failed free-tier construction, lower-cased, contains the needle
FreeFailedWith(needle) == FreeFailed /\ Contains(Lower(last.tried.msg), needle)

FreeFailedCredits == FreeFailedWith(NeedleCredits) \/ FreeFailedWith(Needle402)

FreeFailedAuth == FreeFailedWith(NeedleAuth) \/ FreeFailedWith(Needle401)

\* c is a paid client bound to the default paid model and the paid credential
PaidDefaultClient(c) == c.kind = "client" /\ c.class = "ChatGoogleGenerativeAI" /\ c.model = "gemini-2.0-flash" /\ c.api_key = config.gemini_api_key

\* c is a paid client
PaidClient(c) == c.kind = "client" /\ c.class = "ChatGoogleGenerativeAI"

\* the call raised the error of a failed paid-provider construction
RaisedPaidError == Raised /\ last.result.exc = "GoogleGenerativeAIError" /\ last.trace[Len(last.trace)].ev = "ChatGoogleGenerativeAI" /\ last.trace[Len(last.trace)].raised

----------------------------------------------------------------------------
(* C1 *)

\* C1, as stated: a free-tier call whose free-tier construction fails with
\* "insufficient credits" or "402" returns a paid client bound to the default paid
\* model and the paid credential and leaves the breaker suspended; every later
\* call for a role, while the breaker is suspended, returns a paid client without
\* calling the free-tier constructor.
C1_AsStated ==
    /\ (IsRoleCall /\ RoleIsFreeTier /\ CredentialPresent /\ ~last.skip_before /\ FreeFailedCredits)
          => (PaidDefaultClient(last.result) /\ skip)
    /\ (IsRoleCall /\ last.skip_before)
          => (FreeCalls = 0 /\ PaidClient(last.result))

\* C1, amended: in such a call the breaker is suspended, and the call returns a paid
\* client bound to the default paid model and the paid credential unless the paid
\* construction itself fails, and then it raises that error; every later call for a
\* role, while the breaker is suspended, never calls the free-tier constructor and
\* returns a paid client or raises the error of its failed paid construction.
C1_SuspendOnCredits ==
    /\ (IsRoleCall /\ RoleIsFreeTier /\ CredentialPresent /\ ~last.skip_before /\ FreeFailedCredits)
          => /\ skip
             /\ PaidDefaultClient(last.result) \/ RaisedPaidError
             /\ PaidFailed => RaisedPaidError
             /\ ~PaidFailed => PaidDefaultClient(last.result)
    /\ (IsRoleCall /\ last.skip_before)
          => /\ FreeCalls = 0
             /\ Count(last.trace, "ChatOpenAI") = 0
             /\ skip
             /\ PaidClient(last.result) \/ RaisedPaidError
             /\ ~PaidFailed => PaidClient(last.result)

\* C1 witness: after a free-tier credit failure suspended the breaker, a call for a
\* free-tier role with the credential present returned the default paid client
\* without a call of the free-tier constructor
C1_Witness ==
    /\ IsRoleCall /\ last.skip_before /\ by_credits
    /\ RoleIsFreeTier /\ CredentialPresent
    /\ FreeCalls = 0 /\ PaidDefaultClient(last.result)

----------------------------------------------------------------------------
(* C2 *)

\* C2: create_llm returns a client unless the role is not one of the three or a
\* paid-provider construction failed; what it raises is never a failure of the
\* free tier: a free-tier failure followed by a successful paid construction
\* yields a client.
C2_QuietDegradation ==
    IsCreate =>
        /\ (last.model_type \in Roles /\ ~PaidFailed) => Returned
        /\ Raised => (last.model_type \notin Roles /\ last.result = Raise("ValueError", MsgUnknownType)) \/ RaisedPaidError
        /\ (FreeFailed /\ ~last.trace[Len(last.trace)].raised) => PaidClient(last.result)

\* C2 witness: the free-tier construction failed on a blank credential and the
\* call returned a paid client
C2_Witness ==
    /\ IsRoleCall /\ FreeFailed
    /\ last.tried = Raise("ValueError", MsgKeyEmpty)
    /\ PaidClient(last.result)

----------------------------------------------------------------------------
(* C3 *)

\* C3: with OPENROUTER_API_KEY absent, a call for a free-tier role never calls the
\* free-tier constructor, leaves the breaker as it was, and the client it returns
\* is bound to "gemini-2.0-flash" (not to the requested name).
C3_AbsentCredential ==
    (IsRoleCall /\ RoleIsFreeTier /\ ~env.present)
        => /\ FreeCalls = 0
           /\ skip = last.skip_before
           /\ Returned => PaidDefaultClient(last.result)

----------------------------------------------------------------------------
(* C4 *)

\* C4: with use_openrouter false, a call for any role, catalog member or not, never
\* looks the name up in the catalog and never calls the free-tier constructor; the
\* paid client it constructs is given the requested model name.
C4_FreeTierDisabled ==
    (IsRoleCall /\ ~config.use_openrouter)
        => /\ Count(last.trace, "get_free_model_config") = 0
           /\ FreeCalls = 0
           /\ Count(last.trace, "ChatOpenAI") = 0
           /\ last.trace[1].ev = "ChatGoogleGenerativeAI" /\ last.trace[1].model = Requested
           /\ ~last.trace[1].raised => (PaidClient(last.result) /\ last.result.model = Requested)

\* C4 witness: use_openrouter is false, the requested name is a catalog member and
\* the call returned a paid client bound to that name
C4_Witness ==
    /\ IsRoleCall /\ ~config.use_openrouter
    /\ Requested \in DOMAIN FREE_MODELS
    /\ PaidClient(last.result) /\ last.result.model = Requested

----------------------------------------------------------------------------
(* C5 *)

\* C5: when the role is not free-tier and the paid construction with the requested
\* name raises, create_llm raises that error, makes no second construction and
\* leaves the breaker as it was.
C5_PaidFailureIsFatal ==
    (IsRoleCall /\ ~RoleIsFreeTier /\ last.trace[1].ev = "ChatGoogleGenerativeAI" /\ last.trace[1].raised)
        => /\ Raised /\ last.result = last.tried
           /\ Len(last.trace) = 1
           /\ skip = last.skip_before

----------------------------------------------------------------------------
(* C6 *)

\* C6: a returned client is (1) a free-tier client bound to the catalog's underlying
\* id of the requested name, only for a free-tier role with the credential present
\* and the breaker clear, or (2) a paid client bound to the requested name, only for
\* a role that is not free-tier, or (3) a paid client bound to "gemini-2.0-flash";
\* a paid client returned for a free-tier role, or after the try body failed, is
\* bound to "gemini-2.0-flash".
C6_Bindings ==
    (IsCreate /\ Returned)
        => /\ \/ /\ last.result.class = "ChatOpenAI"
                 /\ RoleIsFreeTier /\ CredentialPresent /\ ~last.skip_before
                 /\ last.result.model = FREE_MODELS[Requested].model
              \/ /\ last.result.class = "ChatGoogleGenerativeAI"
                 /\ ~RoleIsFreeTier
                 /\ last.result.model = Requested
              \/ /\ last.result.class = "ChatGoogleGenerativeAI"
                 /\ last.result.model = "gemini-2.0-flash"
           /\ (PaidClient(last.result) /\ (RoleIsFreeTier \/ IsRaise(last.tried)))
                 => last.result.model = "gemini-2.0-flash"

\* C6 witness: a free-tier role whose model name is not "gemini-2.0-flash" got a
\* paid client, bound to "gemini-2.0-flash"
C6_Witness ==
    /\ IsRoleCall /\ RoleIsFreeTier /\ Requested # "gemini-2.0-flash"
    /\ PaidClient(last.result) /\ last.result.model = "gemini-2.0-flash"

\* C6 witness of binding (1): a free-tier client bound to the underlying id
C6_WitnessFree ==
    /\ IsRoleCall /\ Returned /\ last.result.class = "ChatOpenAI"
    /\ last.result.model = "deepseek/deepseek-r1:free"

----------------------------------------------------------------------------
(* C7 *)

\* C7, as stated: if the free-tier construction fails with a message containing
\* "authentication" or "401", the breaker is left as it was.
C7_AsStated == (IsRoleCall /\ FreeFailedAuth) => skip = last.skip_before

\* C7, amended: if the free-tier construction fails with a message that contains
\* "authentication" or "401" and neither "insufficient credits" nor "402", the call
\* falls back to the paid default model and the breaker is left as it was, clear; and
\* a call for a free-tier role with the credential present and the breaker clear
\* does call the free-tier constructor.
C7_AuthKeepsBreaker ==
    /\ (IsRoleCall /\ FreeFailedAuth /\ ~FreeFailedCredits)
          => /\ skip = last.skip_before /\ ~skip
             /\ last.trace[Len(last.trace)] = [ev |-> "ChatGoogleGenerativeAI", model |-> "gemini-2.0-flash", raised |-> Raised]
             /\ PaidCalls = 1
             /\ PaidDefaultClient(last.result) \/ RaisedPaidError
    /\ (IsRoleCall /\ RoleIsFreeTier /\ CredentialPresent /\ ~last.skip_before) => FreeCalls = 1

\* C7 witness: the free-tier construction failed with "Authentication failed", the
\* call returned the default paid client and the breaker is clear
C7_Witness ==
    /\ IsRoleCall /\ last.tried = Raise("OpenAIError", MsgAuth)
    /\ PaidDefaultClient(last.result) /\ ~skip

----------------------------------------------------------------------------
(* C8 *)

\* C8: the breaker goes from clear to suspended only in a call that called the
\* free-tier constructor and saw it fail with a credit-limit message.
C8_OnlyFreeCreditsSuspend == (IsCreate /\ ~last.skip_before /\ skip) => (FreeCalls > 0 /\ FreeFailedCredits)

----------------------------------------------------------------------------
(* C9 *)

\* C9: a step that takes the breaker from suspended to clear is a call of
\* reset_openrouter_credits_flag; create_llm, whatever its outcome, keeps a
\* suspended breaker suspended.
C9_OnlyResetClears == [][(skip /\ ~skip') => last'.op = "reset_openrouter_credits_flag"]_vars

\* C9 witness: create_llm ran with the breaker suspended and raised, and the
\* breaker is still suspended
C9_Witness == IsRoleCall /\ last.skip_before /\ Raised /\ skip

----------------------------------------------------------------------------
(* C10 *)

\* C10: after a reset of a breaker that a credit failure had suspended, in a run of
\* calls for free-tier roles with the credential present and the free tier failing
\* with a credit-limit message whenever it is tried, the free-tier constructor has
\* been called exactly once after any number of calls, and the breaker is suspended
\* again.
C10_OneAttemptAfterReset == (hist.on /\ hist.calls >= 1) => (hist.free = 1 /\ skip)

\* C10 witness: two calls of such a run have been made, and one attempt
C10_Witness == hist.on /\ hist.calls >= 2 /\ hist.free = 1 /\ skip /\ FreeCalls = 0

----------------------------------------------------------------------------
(* C11 *)

IsReset == last.op = "reset_openrouter_credits_flag"

\* C11: reset_openrouter_credits_flag returns normally from either breaker state and
\* leaves the breaker clear; called with the breaker clear it changes nothing; a
\* second call in a row leaves what the first left.
C11_ResetIdempotent ==
    IsReset
        => /\ last.result.kind = "value"
           /\ ~skip
           /\ ~last.skip_before => skip = last.skip_before
           /\ last.prev_op = "reset_openrouter_credits_flag" => skip = last.skip_before

\* C11 witness: a reset right after a reset, the breaker clear before and after
C11_Witness == IsReset /\ last.prev_op = "reset_openrouter_credits_flag" /\ ~last.skip_before /\ ~skip

----------------------------------------------------------------------------
(* C12 *)

\* the model name the configuration holds for the role of the last call
ConfiguredName ==
    [query_generator |-> config.query_generator_model, reflection |-> config.reflection_model, answer |-> config.answer_model][last.model_type]

\* C12: for each of the three roles the resolved model name is the one configured
\* for that role, and it is not empty: it is the name handed to the free-tier
\* constructor, and to the paid constructor of a role that is not free-tier. For
\* any other role value create_llm raises the unknown-role error, makes no
\* constructor call (so no fallback) and leaves the breaker as it was.
C12_RoleResolution ==
    /\ IsRoleCall
          => /\ Requested = ConfiguredName /\ ConfiguredName # ""
             /\ last.trace[1].ev = "_create_openrouter_llm" => last.trace[1].model = ConfiguredName
             /\ ~(ConfiguredName \in DOMAIN FREE_MODELS /\ config.use_openrouter) => last.trace[1] = [ev |-> "ChatGoogleGenerativeAI", model |-> ConfiguredName, raised |-> last.trace[1].raised]
    /\ (IsCreate /\ last.model_type \notin Roles)
          => /\ last.result = Raise("ValueError", MsgUnknownType)
             /\ last.trace = <<>>
             /\ skip = last.skip_before

\* C12 witness: create_llm("summarizer") raised with the breaker suspended
C12_Witness == IsCreate /\ last.model_type = "summarizer" /\ Raised /\ last.skip_before /\ skip

\* C12 witness of a role: the reflection role resolved to its own model name
C12_WitnessRole == IsRoleCall /\ last.model_type = "reflection" /\ last.trace[1].model = "deepseek-r1" /\ config.answer_model # "deepseek-r1"

----------------------------------------------------------------------------
(* C17 *)

\* the try body of the last call ended with an exception
Caught == IsCreate /\ last.tried.kind = "raise"

\* the reference classification of a lower-cased message
ReferenceClass(lowered) ==
    CASE Contains(lowered, <<"i","n","s","u","f","f","i","c","i","e","n","t"," ","c","r","e","d","i","t","s">>) -> "credits"
      [] Contains(lowered, <<"4","0","2">>) -> "credits"
      [] \/ Contains(lowered, <<"a","u","t","h","e","n","t","i","c","a","t","i","o","n">>)
         \/ Contains(lowered, <<"4","0","1">>) -> IF Contains(lowered, <<"4","0","2">>) THEN "credits" ELSE "auth"
      [] OTHER -> "other"

\* C17: the class of a caught error is the reference class of its lower-cased
\* message, whatever raised it: credits when it contains "insufficient credits" or
\* "402", else authentication when it contains "authentication" or "401", else
\* other. The breaker is suspended afterwards exactly when it was before or the
\* class is credits, and in all three classes the call goes on to construct the
\* default paid model, which is what it returns.
C17_Classification ==
    Caught
        => /\ Classify(last.tried.msg) = ReferenceClass(Lower(last.tried.msg))
           /\ skip = (last.skip_before \/ ReferenceClass(Lower(last.tried.msg)) = "credits")
           /\ Len(last.trace) >= 2
           /\ last.trace[Len(last.trace)].ev = "ChatGoogleGenerativeAI"
           /\ last.trace[Len(last.trace)].model = "gemini-2.0-flash"
           /\ Returned => PaidDefaultClient(last.result)

\* C17 witness: a message that holds both "401" and "402" was classified as
\* credits: the breaker went from closed to suspended and the default paid client
\* was returned
C17_Witness == Caught /\ last.tried.msg = MsgBoth /\ ~last.skip_before /\ skip /\ Returned

\* C17 witness of the two other classes
C17_WitnessAuth == Caught /\ last.tried.msg = MsgAuth /\ ~skip /\ Returned

C17_WitnessOther == Caught /\ last.tried.msg = MsgOther /\ ~skip /\ Returned

----------------------------------------------------------------------------
(* C18 *)

\* C18: within one call of create_llm the free-tier constructor is called at most
\* once and the paid-provider constructor is called at most once, on every path
C18_NoRetries == IsCreate => FreeCalls <= 1 /\ PaidCalls <= 1

----------------------------------------------------------------------------
(* C19 *)

\* the underlying identifier of each catalog entry
UnderlyingId ==
    [n \in {"gpt-oss-20b", "deepseek-chat-v3-0324", "deepseek-r1-0528", "deepseek-r1", "deepseek-r1-distill-llama-70b"} |->
        CASE n = "gpt-oss-20b" -> "openai/gpt-oss-20b:free"
          [] n = "deepseek-chat-v3-0324" -> "deepseek/deepseek-chat-v3-0324:free"
          [] n = "deepseek-r1-0528" -> "deepseek/deepseek-r1-0528:free"
          [] n = "deepseek-r1" -> "deepseek/deepseek-r1:free"
          [] n = "deepseek-r1-distill-llama-70b" -> "deepseek/deepseek-r1-distill-llama-70b:free"]

\* C19: the client create_llm returns carries the temperature and the max_retries
\* of the call, on the direct and on every fallback path; a free-tier client is
\* moreover bound to the underlying identifier of the requested catalog entry and
\* to the endpoint https://openrouter.ai/api/v1, with streaming off and a request
\* timeout of 60.
C19_Forwarding ==
    (IsCreate /\ Returned)
        => /\ last.result.temperature = last.temperature
           /\ last.result.max_retries = last.max_retries
           /\ last.result.class = "ChatOpenAI"
                 => /\ last.result.model = UnderlyingId[Requested]
                    /\ last.result.openai_api_base = "https://openrouter.ai/api/v1"
                    /\ last.result.streaming = FALSE
                    /\ last.result.request_timeout = 60

\* C19 witness: the fallback after a failed free-tier construction returned a paid
\* client with the temperature 0 and the max_retries 5 of the call
C19_Witness == IsCreate /\ Returned /\ FreeFailed /\ last.result.class = "ChatGoogleGenerativeAI" /\ last.result.temperature = 0 /\ last.result.max_retries = 5

\* C19 witness of a free-tier client
C19_WitnessFree == IsCreate /\ Returned /\ last.result.class = "ChatOpenAI" /\ last.result.model = "deepseek/deepseek-r1:free" /\ last.result.temperature = 7

----------------------------------------------------------------------------
(* C14 *)

\* C14: when the model name configured for the role is neither a key of the
\* catalog nor an identifier of a paid model, create_llm never returns a client
\* (the claim asks moreover that it raises before any constructor is called)
C14_FailFast ==
    (IsRoleCall /\ Requested \notin DOMAIN FREE_MODELS /\ Requested \notin gemini_models)
        => ~Returned

----------------------------------------------------------------------------
(* C13, C16 *)

\* the last construction made a Configuration
Constructed(op) == made.op = op /\ made.result.kind = "Configuration"

\* the value the environment holds for a field, under the upper-cased name
EnvironmentValue(name) == IF Upper(name) \in DOMAIN os_environ THEN PyStr(os_environ[Upper(name)]) ELSE PyNone

\* the explicit value from_runnable_config was given for a field
ExplicitValue(name) ==
    IF made.config.t = "dict" /\ "configurable" \in DOMAIN made.config.d /\ name \in DOMAIN made.config.d["configurable"]
    THEN made.config.d["configurable"][name]
    ELSE PyNone

\* C13: the construction of a configuration from explicit per-field values gives
\* every field its explicit value V when there is one, else the value E of the
\* environment variable named by the upper-cased field name when there is one,
\* else the default D
C13_Precedence ==
    Constructed("from_runnable_config")
        => \A name \in model_fields :
               made.result.fields[name] =
                   IF ExplicitValue(name) # PyNone THEN ExplicitValue(name)
                   ELSE IF EnvironmentValue(name) # PyNone THEN Validate(name, EnvironmentValue(name))
                   ELSE FieldDefault(os_environ, name)

\* C16: Configuration() gives each of the fields query_generator_model,
\* reflection_model, answer_model and use_openrouter the value of the environment
\* variable of its upper-cased name when that variable is set
C16_ReadsEnvironment ==
    (Constructed("Configuration") /\ DOMAIN made.kwargs = {})
        => \A name \in {F_query_generator_model, F_reflection_model, F_answer_model, F_use_openrouter} :
               EnvironmentValue(name) # PyNone => made.result.fields[name] = Validate(name, EnvironmentValue(name))

----------------------------------------------------------------------------
(* C15, C20 *)

\* C15: with several threads in create_llm on one factory, no thread begins a
\* free-tier construction (the call of _create_openrouter_llm) while the flag is set
C15_NoFreeWhileSuspended == [][\A t \in Threads : (th[t].pc = "free" /\ th'[t].pc # "free") => ~skip]_vars

\* C20: as long as no reset has run, once a call that observed a credit-limit
\* failure of the free tier has returned (one of two or more concurrent ones, or
\* all of them) the flag is set, and a call that began after such a return is never
\* about to construct the free tier
C20_SuspensionKept ==
    ~obs.reset_ran
        => /\ obs.credit_calls >= 1 => skip
           /\ \A t \in Threads : th[t].after => th[t].pc # "free"

\* C20 witness: two calls that were in flight together have both observed the
\* credit-limit failure and returned, no reset has run, and a call that began
\* afterwards has found the flag and goes to the default paid model
C20_Witness ==
    /\ obs.concurrent /\ obs.credit_calls = 2 /\ ~obs.reset_ran /\ skip
    /\ \E t \in Threads :
           /\ th[t].pc = "paid" /\ th[t].after /\ th[t].model_name = "gemini-2.0-flash"
           /\ \A u \in Threads \ {t} : th[u].pc = "idle"

----------------------------------------------------------------------------
(* C21 *)

\* thread t has caught the ValueError of a failed catalog lookup
LookupFailed(t) == th[t].pc = "except" /\ th[t].free_failed /\ th[t].e = MsgNotFound

\* C21: when the role was classified free-tier and the catalog lookup for its
\* model name then fails, that error leaves create_llm: the call does not go on to
\* construct the paid fallback (the claim adds that the lookup cannot fail while
\* the catalog is not changed, which is C21_LookupUnreachable)
C21_UnknownModelFatal == [][\A t \in Threads : LookupFailed(t) => th'[t].pc # "fallback"]_vars

\* the second half of C21, for the one-factory machine whose catalog is never
\* changed: no call of get_free_model_config raises
C21_LookupUnreachable ==
    IsCreate => \A i \in 1..Len(last.trace) : last.trace[i].ev = "get_free_model_config" => ~last.trace[i].raised

\* the same for the threads: none catches the ValueError of a failed lookup
C21_LookupUnreachableConc == \A t \in Threads : ~LookupFailed(t)

\* the lookup was made in the last call (and did not fail)
C21_LookupMade == IsCreate /\ \E i \in 1..Len(last.trace) : last.trace[i].ev = "get_free_model_config" /\ ~last.trace[i].raised

----------------------------------------------------------------------------
(* C22 *)

\* C22: whenever create_llm enters the free-tier constructor, the credential it
\* validates is the value OPENROUTER_API_KEY has in the environment at the time of
\* the call, the one whose presence create_llm has checked, and a free-tier client
\* is bound to that value (stripped)
C22_FreshCredential ==
    (IsCreate /\ FreeCalls > 0)
        => /\ openrouter_api_key = env
           /\ (Returned /\ last.result.class = "ChatOpenAI") => (env.present /\ last.result.openai_api_key = Strip(env.value))

----------------------------------------------------------------------------
(* C23 *)

\* C23: a call of create_llm or of the reset on one factory leaves the flag of the
\* other factory as it was, and a factory that has just been constructed has no
\* flag, whatever the flag of the factory that exists already
C23_PerInstance ==
    /\ (last.op \in {"create_llm", "reset_openrouter_credits_flag"} /\ last.self = "first") => other.skip = last.other_before
    /\ (last.op \in {"create_llm", "reset_openrouter_credits_flag"} /\ last.self = "other") => skip = last.skip_before
    /\ (last.op = "__init__" /\ "self" \in DOMAIN last) => (~other.skip /\ skip = last.skip_before)
    /\ last = [op |-> "__init__"] => ~skip

\* C23 witness: the first factory was suspended by a call while the second one,
\* constructed, stayed clear
C23_Witness == last.op = "create_llm" /\ last.self = "first" /\ ~last.skip_before /\ skip /\ other.made /\ ~other.skip

\* C23 witness of the reset: the first factory was reset while the second one
\* stayed suspended
C23_WitnessReset == last.op = "reset_openrouter_credits_flag" /\ last.self = "first" /\ last.skip_before /\ ~skip /\ other.skip

\* C23 witness of the construction: a new factory is clear while the first one is
\* suspended
C23_WitnessNew == last.op = "__init__" /\ "self" \in DOMAIN last /\ skip /\ last.other_before /\ ~other.skip

----------------------------------------------------------------------------
(* C24 *)

\* C24: with several threads on one factory, the deletion a reset call comes to
\* after its presence test never raises, and the flag is clear when it is done
C24_ResetNeverRaises ==
    [][\A t \in Threads : (th[t].pc = "delattr" /\ th'[t].pc # "delattr") => (~IsRaise(delattr(skip).result) /\ ~skip')]_vars

====
